---- MODULE Spec2Model ----
(***************************************************************************)
(* Model of the market-watch harmonization pipeline:                       *)
(*   market_watch_auto.py   pytrends_fetch_with_anchor (batching, retry,   *)
(*                          anchor rescaling, column order)                *)
(*   market_watch_macro.py  fetch_fred, compute_m2_yoy, hy_to_bps,         *)
(*                          vix_monthly, main (merge and fill)             *)
(* Floating point values are modelled as exact extended rationals          *)
(* [n, d]: d > 0 is the finite value n/d in lowest terms, d = 0 is NaN     *)
(* (n = 0), +inf (n = 1) or -inf (n = -1).                                 *)
(***************************************************************************)
EXTENDS Integers, Sequences, FiniteSets, TLC

\* ------------------------------------------------------------------ bounds
\* longest keyword list handed to pytrends_fetch_with_anchor
MaxKeys == 10
\* a trends response is indexed by a subset of the days 1..MaxTime
MaxTime == 2
\* a trends response is normalised to one of the levels 0..MaxLevel
MaxLevel == 2

\* --------------------------------------------------------- float arithmetic
RECURSIVE GCD(_, _)
GCD(a, b) == IF b = 0 THEN a ELSE GCD(b, a % b)

AbsInt(x) == IF x < 0 THEN -x ELSE x

SignInt(x) == IF x < 0 THEN -1 ELSE IF x > 0 THEN 1 ELSE 0

NaN == [n |-> 0, d |-> 0]

\* the finite value n/d (d # 0) in lowest terms with a positive denominator
Norm(n, d) ==
    LET g == GCD(AbsInt(n), AbsInt(d))
        s == SignInt(d)
    IN  [n |-> (s * n) \div g, d |-> (s * d) \div g]

F(x) == [n |-> x, d |-> 1]

IsNaN(x) == x.d = 0 /\ x.n = 0

IsFinite(x) == x.d > 0

IsInf(x) == x.d = 0 /\ x.n # 0

\* Python's  x != 0  on a float: NaN and the infinities are "not zero"
NonZero(x) == ~(IsFinite(x) /\ x.n = 0)

FMul(a, b) ==
    IF IsNaN(a) \/ IsNaN(b) THEN NaN
    ELSE IF IsFinite(a) /\ IsFinite(b) THEN Norm(a.n * b.n, a.d * b.d)
    ELSE IF a.n = 0 \/ b.n = 0 THEN NaN
    ELSE [n |-> SignInt(a.n) * SignInt(b.n), d |-> 0]

FDiv(a, b) ==
    IF IsNaN(a) \/ IsNaN(b) THEN NaN
    ELSE IF IsFinite(a) /\ IsFinite(b)
         THEN IF b.n # 0 THEN Norm(a.n * b.d, a.d * b.n)
              ELSE IF a.n = 0 THEN NaN
              ELSE [n |-> SignInt(a.n), d |-> 0]
    ELSE IF IsInf(a) /\ IsInf(b) THEN NaN
    ELSE IF IsInf(a) THEN [n |-> a.n * (IF b.n < 0 THEN -1 ELSE 1), d |-> 0]
    ELSE F(0)

FAdd(a, b) ==
    IF IsNaN(a) \/ IsNaN(b) THEN NaN
    ELSE IF IsFinite(a) /\ IsFinite(b) THEN Norm(a.n * b.d + b.n * a.d, a.d * b.d)
    ELSE IF IsInf(a) /\ IsInf(b) THEN (IF a.n = b.n THEN a ELSE NaN)
    ELSE IF IsInf(a) THEN a
    ELSE b

FSub(a, b) == FAdd(a, [n |-> -b.n, d |-> b.d])

FAbs(a) == [n |-> AbsInt(a.n), d |-> a.d]

\* a < b on floats: false as soon as one side is NaN
FLess(a, b) ==
    IF IsNaN(a) \/ IsNaN(b) THEN FALSE
    ELSE IF IsFinite(a) /\ IsFinite(b) THEN a.n * b.d < b.n * a.d
    ELSE IF IsInf(a) /\ IsInf(b) THEN a.n < b.n
    ELSE IF IsInf(a) THEN a.n < 0
    ELSE b.n > 0

\* ------------------------------------------------------------ sequences
Range(s) == {s[i] : i \in 1..Len(s)}

RECURSIVE SetToSortedSeq(_)
SetToSortedSeq(S) ==
    IF S = {} THEN <<>>
    ELSE LET m == CHOOSE x \in S : \A y \in S : x <= y
         IN  <<m>> \o SetToSortedSeq(S \ {m})

PosOf(s, x) == CHOOSE i \in 1..Len(s) : s[i] = x

Count(x, s) == Cardinality({i \in 1..Len(s) : s[i] = x})

RECURSIVE FSum(_)
FSum(s) == IF s = <<>> THEN F(0) ELSE FAdd(Head(s), FSum(Tail(s)))

NotNaNs(s) == SelectSeq(s, LAMBDA v : ~IsNaN(v))

\* Series.mean(): NaN cells are skipped; the mean of nothing is NaN
Mean(s) ==
    LET v == NotNaNs(s)
    IN  IF v = <<>> THEN NaN ELSE FDiv(FSum(v), F(Len(v)))

RECURSIVE FMax(_)
\* Series.max(): NaN cells are skipped; the max of nothing is NaN
FMax(s) ==
    LET v == NotNaNs(s)
    IN  IF v = <<>> THEN NaN
        ELSE IF Len(v) = 1 THEN v[1]
        ELSE LET r == FMax(Tail(v))
             IN  IF FLess(r, v[1]) THEN v[1] ELSE r

\* ------------------------------------------------------------ data frames
\* A frame is [index, cols]: index a strictly increasing sequence of
\* timestamps, cols a sequence of [name, vals] with vals parallel to index.
EmptyDF == [index |-> <<>>, cols |-> <<>>]

\* DataFrame.empty: some axis has length 0
IsEmpty(df) == Len(df.index) = 0 \/ Len(df.cols) = 0

ColNames(df) == [i \in 1..Len(df.cols) |-> df.cols[i].name]

HasCol(df, k) == \E i \in 1..Len(df.cols) : df.cols[i].name = k

\* df.drop(columns=[k], errors="ignore")
DropCol(df, k) ==
    [index |-> df.index, cols |-> SelectSeq(df.cols, LAMBDA c : c.name # k)]

\* df[k] for a column name that occurs once
Col(df, k) == df.cols[CHOOSE i \in 1..Len(df.cols) : df.cols[i].name = k]

\* the cell of column k at timestamp t
Cell(df, k, t) == Col(df, k).vals[PosOf(df.index, t)]

\* a column laid out on another index: NaN where it has no row
Reindex(c, old, new) ==
    [name |-> c.name,
     vals |-> [i \in 1..Len(new) |->
                 IF new[i] \in Range(old) THEN c.vals[PosOf(old, new[i])] ELSE NaN]]

\* pd.concat([a, b], axis=1): outer join, the rows of a followed by the rows
\* only b has
Concat(a, b) ==
    LET idx == a.index \o SelectSeq(b.index, LAMBDA t : t \notin Range(a.index))
    IN  [index |-> idx,
         cols  |-> [i \in 1..Len(a.cols) |-> Reindex(a.cols[i], a.index, idx)]
                   \o [i \in 1..Len(b.cols) |-> Reindex(b.cols[i], b.index, idx)]]

\* df.sort_index()
SortIndex(df) ==
    LET idx == SetToSortedSeq(Range(df.index))
    IN  [index |-> idx,
         cols  |-> [i \in 1..Len(df.cols) |-> Reindex(df.cols[i], df.index, idx)]]

RECURSIVE SelectCols(_, _)
\* df[names]: the columns called names[1], then those called names[2], ...
SelectCols(df, names) ==
    IF names = <<>> THEN <<>>
    ELSE SelectSeq(df.cols, LAMBDA c : c.name = Head(names))
         \o SelectCols(df, Tail(names))

\* ================================================================ state
VARIABLES
    keywords,        \* pytrends_fetch_with_anchor: the requested keys
    anchor_keyword,  \* its anchor_keyword argument, NoKey for None
    batch1,
    batch2,
    payload,         \* the key list of the last build_payload call
    att,             \* try_build_and_get: attempts made so far
    df1,
    df2,
    scale,
    ret,             \* the frame pytrends_fetch_with_anchor returned
    path,            \* which return statement produced ret
    pc               \* position in pytrends_fetch_with_anchor

tvars == <<keywords, anchor_keyword, batch1, batch2, payload, att, df1, df2,
           scale, ret, path, pc>>

VARIABLES
    fails,      \* FRED, per series: how many leading requests raise
    answer,     \* FRED, per series: what the first request that does not
                \* raise returns, "empty" or "rows"
    data,       \* FRED, per series: the rows it returns
    mpc,        \* position in market_watch_macro.main
    i_try,      \* fetch_fred: the loop variable i
    made,       \* per series: requests fetch_fred has sent
    m2_raw,
    hy_raw,
    vix_raw,
    m2_yoy,
    hy_bps,
    vix_mon,
    combined,
    out_csv     \* what main wrote to OUT_CSV: "none", "placeholder", "panel"

mvars == <<fails, answer, data, mpc, i_try, made, m2_raw, hy_raw, vix_raw,
           m2_yoy, hy_bps, vix_mon, combined, out_csv>>

vars == <<tvars, mvars>>

\* ===================================== market_watch_auto.py: trends fetch
NoKey == 0

\* the provider's completeness flag column
IsPartial == -1

\* pytrends accepts at most this many keys; the split point of the batches
BatchSize == 5

\* attempts=3
Attempts == 3

Times == 1..MaxTime

\* what the comparison provider answers for key k on day t in a response
\* normalised to level lv
TrendValue(k, t, lv) == F(lv * (k + t))

\* a provider response with rows: one column per entry of klist (the column
\* of key omit left out), then the completeness flag
ProviderFrame(klist, idx, omit, lv) ==
    LET ix   == SetToSortedSeq(idx)
        keep == SelectSeq(klist, LAMBDA k : k # omit)
    IN  [index |-> ix,
         cols  |-> [i \in 1..Len(keep) |->
                      [name |-> keep[i],
                       vals |-> [j \in 1..Len(ix) |-> TrendValue(keep[i], ix[j], lv)]]]
                   \o << [name |-> IsPartial, vals |-> [j \in 1..Len(ix) |-> F(0)]] >>]

\* lines 77-80: the frame try_build_and_get returns for a response df
Cleaned(df) == IF HasCol(df, IsPartial) THEN DropCol(df, IsPartial) ELSE df

\* lines 93-94
EffectiveAnchor(kw, a) == IF a = NoKey THEN kw[1] ELSE a

\* line 97
Batch1(kw) == SubSeq(kw, 1, IF Len(kw) < BatchSize THEN Len(kw) ELSE BatchSize)

\* lines 99-100
Batch2(kw, a) == <<a>> \o SelectSeq(kw, LAMBDA k : k \notin Range(Batch1(kw)))

\* lines 126, 133-134: the anchor means over the overlapping timestamps
CommonIndex(d1, d2) == SelectSeq(d1.index, LAMBDA t : t \in Range(d2.index))

AnchorOver(df, a, ix) == [i \in 1..Len(ix) |-> Cell(df, a, ix[i])]

\* lines 126-135
ScaleFactorWholeFrame(d1, d2, a) ==
    LET common == CommonIndex(d1, d2)
        a1 == IF common = <<>> THEN FMax(Col(d1, a).vals) ELSE Mean(Col(d1, a).vals)
        a2 == IF common = <<>> THEN FMax(Col(d2, a).vals) ELSE Mean(Col(d2, a).vals)
    IN  IF NonZero(a2) THEN FDiv(a1, a2) ELSE F(1)

ScaleFactor(d1, d2, a) ==
    LET common == CommonIndex(d1, d2)
        a1 == IF common = <<>>
              THEN (IF Len(Col(d1, a).vals) > 0 THEN FMax(Col(d1, a).vals) ELSE F(1))
              ELSE Mean(AnchorOver(d1, a, common))
        a2 == IF common = <<>>
              THEN (IF Len(Col(d2, a).vals) > 0 THEN FMax(Col(d2, a).vals) ELSE F(1))
              ELSE Mean(AnchorOver(d2, a, common))
    IN  IF NonZero(a2) THEN FDiv(a1, a2) ELSE F(1)

\* lines 138-142
Scaled(d2, a, s) ==
    [index |-> d2.index,
     cols  |-> [i \in 1..Len(d2.cols) |->
                  IF d2.cols[i].name = a THEN d2.cols[i]
                  ELSE [name |-> d2.cols[i].name,
                        vals |-> [j \in 1..Len(d2.index) |-> FMul(d2.cols[i].vals[j], s)]]]]

\* lines 145-151
Reordered(kw, c) ==
    [index |-> c.index,
     cols  |-> SelectCols(c, SelectSeq(kw, LAMBDA k : HasCol(c, k)))]

\* lines 111-152: what the function returns once both batches are fetched
CombineFrames(kw, a, d1, d2) ==
    IF IsEmpty(d1) /\ IsEmpty(d2)
    THEN [df |-> EmptyDF, scale |-> NaN, path |-> "both_empty"]
    ELSE IF IsEmpty(d2) THEN [df |-> d1, scale |-> NaN, path |-> "only_batch1"]
    ELSE IF IsEmpty(d1) THEN [df |-> d2, scale |-> NaN, path |-> "only_batch2"]
    ELSE IF ~HasCol(d1, a) \/ ~HasCol(d2, a)
    THEN [df |-> Concat(d1, DropCol(d2, a)), scale |-> NaN, path |-> "unaligned"]
    ELSE LET s == ScaleFactor(d1, d2, a)
         IN  [df    |-> Reordered(kw, Concat(d1, DropCol(Scaled(d2, a, s), a))),
              scale |-> s,
              path  |-> "rescaled"]

\* the program is not running: its variables rest
TrendsOff ==
    /\ keywords = <<>>
    /\ anchor_keyword = NoKey
    /\ batch1 = <<>>
    /\ batch2 = <<>>
    /\ payload = <<>>
    /\ att = 0
    /\ df1 = EmptyDF
    /\ df2 = EmptyDF
    /\ scale = NaN
    /\ ret = EmptyDF
    /\ path = "off"
    /\ pc = "off"

MacroOff ==
    /\ fails = <<>>
    /\ answer = <<>>
    /\ data = <<>>
    /\ mpc = "off"
    /\ i_try = 0
    /\ made = <<>>
    /\ m2_raw = EmptyDF
    /\ hy_raw = EmptyDF
    /\ vix_raw = EmptyDF
    /\ m2_yoy = EmptyDF
    /\ hy_bps = EmptyDF
    /\ vix_mon = EmptyDF
    /\ combined = EmptyDF
    /\ out_csv = "none"

InitTrends ==
    /\ \E n \in 0..MaxKeys :
         /\ keywords = [k \in 1..n |-> k]
         /\ anchor_keyword \in {NoKey} \cup (1..n)
    /\ batch1 = <<>>
    /\ batch2 = <<>>
    /\ payload = <<>>
    /\ att = 0
    /\ df1 = EmptyDF
    /\ df2 = EmptyDF
    /\ scale = NaN
    /\ ret = EmptyDF
    /\ path = "running"
    /\ pc = "start"
    /\ MacroOff

\* lines 60-61
ReturnNoKeywords ==
    /\ pc = "start"
    /\ keywords = <<>>
    /\ ret' = EmptyDF
    /\ path' = "no_keywords"
    /\ pc' = "done"
    /\ UNCHANGED <<keywords, anchor_keyword, batch1, batch2, payload, att, df1, df2, scale,
                   mvars>>

\* lines 87-88: at most five keys, one fetch of the whole list
PlanSingle ==
    /\ pc = "start"
    /\ keywords # <<>>
    /\ Len(keywords) <= BatchSize
    /\ pc' = "fetch_single"
    /\ att' = 0
    /\ UNCHANGED <<keywords, anchor_keyword, batch1, batch2, payload, df1, df2, scale, ret, path,
                   mvars>>

\* lines 93-100: more than five keys, two batches
PlanBatches ==
    /\ pc = "start"
    /\ Len(keywords) > BatchSize
    /\ anchor_keyword' = EffectiveAnchor(keywords, anchor_keyword)
    /\ batch1' = Batch1(keywords)
    /\ batch2' = Batch2(keywords, anchor_keyword')
    /\ pc' = "fetch1"
    /\ att' = 0
    /\ UNCHANGED <<keywords, payload, df1, df2, scale, ret, path,
                   mvars>>

Klist == IF pc = "fetch_single" THEN keywords
         ELSE IF pc = "fetch1" THEN batch1 ELSE batch2

\* try_build_and_get hands df back to its caller (lines 88-89, 102, 103)
Returned(df) ==
    /\ att' = 0
    /\ IF pc = "fetch_single"
       THEN /\ ret' = df
            /\ path' = "single"
            /\ pc' = "done"
            /\ UNCHANGED <<df1, df2>>
       ELSE IF pc = "fetch1"
       THEN /\ df1' = df
            /\ pc' = "fetch2"
            /\ UNCHANGED <<df2, ret, path>>
       ELSE /\ df2' = df
            /\ pc' = "combine"
            /\ UNCHANGED <<df1, ret, path>>

\* one pass of the loop of lines 69-83 that ends in the except clause or in
\* the None branch; after the last pass line 84 returns an empty frame
AttemptFails ==
    /\ pc \in {"fetch_single", "fetch1", "fetch2"}
    /\ att < Attempts
    /\ payload' = Klist
    /\ IF att + 1 < Attempts
       THEN /\ att' = att + 1
            /\ UNCHANGED <<df1, df2, ret, path, pc>>
       ELSE Returned(EmptyDF)
    /\ UNCHANGED <<keywords, anchor_keyword, batch1, batch2, scale,
                   mvars>>

\* one pass of the loop of lines 69-80 in which interest_over_time returns a
\* frame, with rows or without: it is returned as it is
AttemptAnswers ==
    /\ pc \in {"fetch_single", "fetch1", "fetch2"}
    /\ att < Attempts
    /\ payload' = Klist
    /\ \/ Returned(EmptyDF)
       \/ \E idx \in (SUBSET Times) \ {{}}, omit \in {NoKey, Klist[1]}, lv \in 0..MaxLevel :
            Returned(Cleaned(ProviderFrame(Klist, idx, omit, lv)))
    /\ UNCHANGED <<keywords, anchor_keyword, batch1, batch2, scale,
                   mvars>>

\* lines 111-152
Combine ==
    /\ pc = "combine"
    /\ LET r == CombineFrames(keywords, anchor_keyword, df1, df2)
       IN  /\ ret' = r.df
           /\ scale' = r.scale
           /\ path' = r.path
    /\ pc' = "done"
    /\ UNCHANGED <<keywords, anchor_keyword, batch1, batch2, payload, att, df1, df2,
                   mvars>>

NextTrends ==
    \/ ReturnNoKeywords
    \/ PlanSingle
    \/ PlanBatches
    \/ AttemptFails
    \/ AttemptAnswers
    \/ Combine

SpecTrends == InitTrends /\ [][NextTrends]_vars

\* =============================================== market_watch_macro.py
FRED_M2 == "M2SL"

FRED_HY == "BAMLH0A0HYM2"

FRED_VIX == "VIXCLS"

SeriesIds == {FRED_M2, FRED_HY, FRED_VIX}

\* tries=3
Tries == 3

\* pct_change(periods=12)
YoYPeriods == 12

\* ... * 100.0 of compute_m2_yoy
PctFactor == 100

\* abs(med) < 20
BpsThreshold == 20

\* hy_mon[series_id] * 100.0
BpsFactor == 100

\* a timestamp is month * 100 + day of the month; the month-end bucket of
\* month m is labelled m
MonthOf(d) == d \div 100

Date(m, day) == m * 100 + day

MinOf(S) == CHOOSE x \in S : \A y \in S : x <= y

MaxOf(S) == CHOOSE x \in S : \A y \in S : x >= y

\* df.resample("M").last(): one row per month from the first to the last
\* month with rows; a cell is the last non-NaN value of the month, NaN when
\* the month has none
ResampleLast(df) ==
    LET months == {MonthOf(d) : d \in Range(df.index)}
        lo  == MinOf(months)
        idx == [j \in 1..(MaxOf(months) - lo + 1) |-> lo + j - 1]
        Rows(m) == SelectSeq([p \in 1..Len(df.index) |-> p],
                             LAMBDA p : MonthOf(df.index[p]) = m)
        LastValid(c, m) ==
            LET ps == Rows(m)
                vs == NotNaNs([q \in 1..Len(ps) |-> c.vals[ps[q]]])
            IN  IF vs = <<>> THEN NaN ELSE vs[Len(vs)]
    IN  [index |-> idx,
         cols  |-> [k \in 1..Len(df.cols) |->
                      [name |-> df.cols[k].name,
                       vals |-> [j \in 1..Len(idx) |-> LastValid(df.cols[k], idx[j])]]]]

RECURSIVE FillFrom(_, _)
\* one pass over a column that carries the last value seen into NaN cells
FillFrom(v, last) ==
    IF v = <<>> THEN <<>>
    ELSE LET x == IF IsNaN(Head(v)) THEN last ELSE Head(v)
         IN  <<x>> \o FillFrom(Tail(v), x)

Reverse(v) == [j \in 1..Len(v) |-> v[Len(v) + 1 - j]]

FFillVals(v) == FillFrom(v, NaN)

BFillVals(v) == Reverse(FillFrom(Reverse(v), NaN))

\* df.ffill()
FFill(df) ==
    [index |-> df.index,
     cols  |-> [k \in 1..Len(df.cols) |->
                  [name |-> df.cols[k].name, vals |-> FFillVals(df.cols[k].vals)]]]

\* df.bfill()
BFill(df) ==
    [index |-> df.index,
     cols  |-> [k \in 1..Len(df.cols) |->
                  [name |-> df.cols[k].name, vals |-> BFillVals(df.cols[k].vals)]]]

\* Series.pct_change(periods=p): pandas pads NaN cells forward first
\* (fill_method="pad", its default), then divides by the series shifted by p
\* rows and subtracts 1
PctChange(v, p) ==
    LET f == FFillVals(v)
    IN  [j \in 1..Len(v) |->
           IF j <= p THEN NaN ELSE FSub(FDiv(f[j], f[j - p]), F(1))]

\* compute_m2_yoy
ComputeM2YoY(m2_df, series_id) ==
    IF IsEmpty(m2_df) THEN EmptyDF
    ELSE LET m2_mon == SortIndex(ResampleLast(m2_df))
             pct    == PctChange(Col(m2_mon, series_id).vals, YoYPeriods)
         IN  [index |-> m2_mon.index,
              cols  |-> << [name |-> "M2_YoY_pct",
                            vals |-> [j \in 1..Len(pct) |-> FMul(pct[j], F(PctFactor))]] >>]

RECURSIVE SortFloats(_)
SortFloats(v) ==
    IF v = <<>> THEN <<>>
    ELSE LET m == CHOOSE j \in 1..Len(v) : \A k \in 1..Len(v) : ~FLess(v[k], v[j])
         IN  <<v[m]>> \o SortFloats(SubSeq(v, 1, m - 1) \o SubSeq(v, m + 1, Len(v)))

\* Series.median(): NaN cells are skipped; the median of nothing is NaN
Median(v) ==
    LET x == SortFloats(NotNaNs(v))
        n == Len(x)
    IN  IF n = 0 THEN NaN
        ELSE IF n % 2 = 1 THEN x[(n + 1) \div 2]
        ELSE FDiv(FAdd(x[n \div 2], x[n \div 2 + 1]), F(2))

IsPercentInclusive(med) == ~IsNaN(med) /\ ~FLess(F(BpsThreshold), FAbs(med))

\* line 65
IsPercent(med) == ~IsNaN(med) /\ FLess(FAbs(med), F(BpsThreshold))

\* hy_to_bps
HyToBps(hy_df, series_id) ==
    IF IsEmpty(hy_df) THEN EmptyDF
    ELSE LET hy_mon == SortIndex(ResampleLast(hy_df))
             v      == Col(hy_mon, series_id).vals
             med    == Median(v)
         IN  [index |-> hy_mon.index,
              cols  |-> << [name |-> "HY_spread_bps",
                            vals |-> IF IsPercent(med)
                                     THEN [j \in 1..Len(v) |-> FMul(v[j], F(BpsFactor))]
                                     ELSE v] >>]

\* vix_monthly
VixMonthly(vix_df, series_id) ==
    IF IsEmpty(vix_df) THEN EmptyDF
    ELSE LET vix_mon_ == SortIndex(ResampleLast(vix_df))
         IN  [index |-> vix_mon_.index,
              cols  |-> << [name |-> "VIX", vals |-> vix_mon_.cols[1].vals] >>]

RECURSIVE ConcatAll(_)
\* pd.concat(dfs, axis=1) for a non-empty list
ConcatAll(dfs) ==
    IF Len(dfs) = 1 THEN dfs[1]
    ELSE Concat(ConcatAll(SubSeq(dfs, 1, Len(dfs) - 1)), dfs[Len(dfs)])

FillGapsBackwardFirst(df) == FFill(BFill(df))

\* line 100: .ffill().bfill()
FillGaps(df) == BFill(FFill(df))

\* line 92
NonEmptyFrames(a, b, c) == SelectSeq(<<a, b, c>>, LAMBDA d : ~IsEmpty(d))

\* lines 99-100
Panel(dfs) == FillGaps(SortIndex(ConcatAll(dfs)))

\* ------------------------------------------------ what FRED can return
\* months of history FRED has for M2
MaxHist == 14
\* rows of the M2 history that are missing, NaN or zero
MaxSpecial == 2
\* months of the HY history handed to hy_to_bps
MaxHyMonths == 3
\* the monthly frames handed to the merge step lie in the months 1..MaxMonth
MaxMonth == 3

\* M2SL, one row per month 1..h dated the first of the month, without the
\* months in gaps; the level of month m is 100 + m, NaN in nans, 0 in zeros
M2Rows(h, gaps, nans, zeros) ==
    LET ms == SetToSortedSeq((1..h) \ gaps)
    IN  [index |-> [j \in 1..Len(ms) |-> Date(ms[j], 1)],
         cols  |-> << [name |-> FRED_M2,
                       vals |-> [j \in 1..Len(ms) |->
                                   IF ms[j] \in nans THEN NaN
                                   ELSE IF ms[j] \in zeros THEN F(0)
                                   ELSE F(100 + ms[j])]] >>]

\* a daily series with the value v[j] on day 2 of month lo + j - 1 and,
\* when early is given, a row with the value early on day 1 of each month
DailyRows(name, lo, v, early) ==
    LET days == IF IsNaN(early) THEN <<2>> ELSE <<1, 2>>
        n    == Len(days)
    IN  [index |-> [j \in 1..(Len(v) * n) |->
                      Date(lo + (j - 1) \div n, days[((j - 1) % n) + 1])],
         cols  |-> << [name |-> name,
                       vals |-> [j \in 1..(Len(v) * n) |->
                                   IF days[((j - 1) % n) + 1] = 2
                                   THEN v[(j - 1) \div n + 1] ELSE early]] >>]

HyVals == {NaN, F(-30), F(-5), F(5), F(19), F(20), F(21), F(50)}

\* a monthly frame of one column over the months lo..hi: the cell of month m
\* is observed (base + m) for m in obs and NaN otherwise
MonthlyColumn(name, base, lo, hi, obs) ==
    [index |-> [j \in 1..(hi - lo + 1) |-> lo + j - 1],
     cols  |-> << [name |-> name,
                   vals |-> [j \in 1..(hi - lo + 1) |->
                               IF lo + j - 1 \in obs THEN F(base + lo + j - 1) ELSE NaN]] >>]

MonthlyColumns(name, base) ==
    {EmptyDF} \cup
    {MonthlyColumn(name, base, lo, hi, obs) :
        lo \in 1..MaxMonth, hi \in 1..MaxMonth, obs \in SUBSET (1..MaxMonth)}

\* --------------------------------------------------------- fetch_fred, main
Fetching == mpc \in {"fetch_m2", "fetch_hy", "fetch_vix"}

\* lines 83-85: the series main is fetching and where it goes next
CurrentSeries ==
    IF mpc = "fetch_m2" THEN FRED_M2 ELSE IF mpc = "fetch_hy" THEN FRED_HY ELSE FRED_VIX

AfterFetch ==
    IF mpc = "fetch_m2" THEN "fetch_hy" ELSE IF mpc = "fetch_hy" THEN "fetch_vix" ELSE "compute"

\* what pdr.DataReader does on request number r for series s
Response(s, r) == IF r <= fails[s] THEN "raise" ELSE answer[s]

\* fetch_fred returns df to main
FredReturns(df) ==
    /\ i_try' = 0
    /\ mpc' = AfterFetch
    /\ m2_raw'  = IF mpc = "fetch_m2"  THEN df ELSE m2_raw
    /\ hy_raw'  = IF mpc = "fetch_hy"  THEN df ELSE hy_raw
    /\ vix_raw' = IF mpc = "fetch_vix" THEN df ELSE vix_raw

\* line 36
Renamed(df, series_id) ==
    [index |-> df.index, cols |-> << [name |-> series_id, vals |-> df.cols[1].vals] >>]

InitMacro ==
    /\ TrendsOff
    /\ fails \in [SeriesIds -> 0..Tries]
    /\ answer \in [SeriesIds -> {"empty", "rows"}]
    /\ \A s \in SeriesIds : fails[s] = Tries => answer[s] = "rows"
    /\ \E h \in (MaxHist - 2)..MaxHist, lv \in {5, 50} :
         data = [s \in SeriesIds |->
                   IF s = FRED_M2 THEN M2Rows(h, {}, {}, {})
                   ELSE IF s = FRED_HY
                        THEN DailyRows(FRED_HY, MaxHist - 1, <<F(lv), F(lv + 1)>>, NaN)
                   ELSE DailyRows(FRED_VIX, MaxHist, <<F(15), F(30)>>, F(18))]
    /\ mpc = "fetch_m2"
    /\ i_try = 0
    /\ made = [s \in SeriesIds |-> 0]
    /\ m2_raw = EmptyDF
    /\ hy_raw = EmptyDF
    /\ vix_raw = EmptyDF
    /\ m2_yoy = EmptyDF
    /\ hy_bps = EmptyDF
    /\ vix_mon = EmptyDF
    /\ combined = EmptyDF
    /\ out_csv = "none"

\* lines 29-32, 42-45: the request raises and the loop goes on
FredRaisesRetry ==
    /\ Fetching
    /\ i_try + 1 < Tries
    /\ Response(CurrentSeries, i_try + 1) = "raise"
    /\ made' = [made EXCEPT ![CurrentSeries] = @ + 1]
    /\ i_try' = i_try + 1
    /\ UNCHANGED <<fails, answer, data, mpc, m2_raw, hy_raw, vix_raw, m2_yoy, hy_bps,
                   vix_mon, combined, out_csv, tvars>>

\* lines 42-46: the last request raises, fetch_fred raises RuntimeError and
\* main, which has no handler, ends with it
FredRaisesLast ==
    /\ Fetching
    /\ i_try + 1 = Tries
    /\ Response(CurrentSeries, i_try + 1) = "raise"
    /\ made' = [made EXCEPT ![CurrentSeries] = @ + 1]
    /\ i_try' = i_try + 1
    /\ mpc' = "raised"
    /\ UNCHANGED <<fails, answer, data, m2_raw, hy_raw, vix_raw, m2_yoy, hy_bps,
                   vix_mon, combined, out_csv, tvars>>

\* lines 33-35: an empty answer is returned at once
FredEmpty ==
    /\ Fetching
    /\ i_try < Tries
    /\ Response(CurrentSeries, i_try + 1) = "empty"
    /\ made' = [made EXCEPT ![CurrentSeries] = @ + 1]
    /\ FredReturns(EmptyDF)
    /\ UNCHANGED <<fails, answer, data, m2_yoy, hy_bps, vix_mon, combined, out_csv, tvars>>

\* lines 36-41
FredRows ==
    /\ Fetching
    /\ i_try < Tries
    /\ Response(CurrentSeries, i_try + 1) = "rows"
    /\ made' = [made EXCEPT ![CurrentSeries] = @ + 1]
    /\ FredReturns(Renamed(data[CurrentSeries], CurrentSeries))
    /\ UNCHANGED <<fails, answer, data, m2_yoy, hy_bps, vix_mon, combined, out_csv, tvars>>

\* lines 87-89
Compute ==
    /\ mpc = "compute"
    /\ m2_yoy' = ComputeM2YoY(m2_raw, FRED_M2)
    /\ hy_bps' = HyToBps(hy_raw, FRED_HY)
    /\ vix_mon' = VixMonthly(vix_raw, FRED_VIX)
    /\ mpc' = "merge"
    /\ UNCHANGED <<fails, answer, data, i_try, made, m2_raw, hy_raw, vix_raw, combined,
                   out_csv, tvars>>

\* lines 92-97: nothing to merge, a placeholder CSV is written, main returns 1
MergeNoData ==
    /\ mpc = "merge"
    /\ NonEmptyFrames(m2_yoy, hy_bps, vix_mon) = <<>>
    /\ out_csv' = "placeholder"
    /\ mpc' = "done"
    /\ UNCHANGED <<fails, answer, data, i_try, made, m2_raw, hy_raw, vix_raw, m2_yoy,
                   hy_bps, vix_mon, combined, tvars>>

\* lines 92, 99-105: the panel is built and written
MergePanel ==
    /\ mpc = "merge"
    /\ NonEmptyFrames(m2_yoy, hy_bps, vix_mon) # <<>>
    /\ combined' = Panel(NonEmptyFrames(m2_yoy, hy_bps, vix_mon))
    /\ out_csv' = "panel"
    /\ mpc' = "done"
    /\ UNCHANGED <<fails, answer, data, i_try, made, m2_raw, hy_raw, vix_raw, m2_yoy,
                   hy_bps, vix_mon, tvars>>

NextMacro ==
    \/ FredRaisesRetry
    \/ FredRaisesLast
    \/ FredEmpty
    \/ FredRows
    \/ Compute
    \/ MergeNoData
    \/ MergePanel

SpecMacro == InitMacro /\ [][NextMacro]_vars

\* ----------------------------------------- the merge step on its own inputs
InitAlign ==
    /\ TrendsOff
    /\ fails = <<>>
    /\ answer = <<>>
    /\ data = <<>>
    /\ mpc = "merge"
    /\ i_try = 0
    /\ made = <<>>
    /\ m2_raw = EmptyDF
    /\ hy_raw = EmptyDF
    /\ vix_raw = EmptyDF
    /\ m2_yoy \in MonthlyColumns("M2_YoY_pct", 100)
    /\ hy_bps \in MonthlyColumns("HY_spread_bps", 200)
    /\ vix_mon \in {EmptyDF} \cup
                   {MonthlyColumn("VIX", 300, lo, hi, lo..hi) : lo \in 1..MaxMonth, hi \in 1..MaxMonth}
    /\ \A d \in {m2_yoy, hy_bps, vix_mon} : d # EmptyDF => Len(d.index) > 0
    /\ combined = EmptyDF
    /\ out_csv = "none"

NextAlign ==
    \/ MergeNoData
    \/ MergePanel

SpecAlign == InitAlign /\ [][NextAlign]_vars

\* ------------------------------------------ compute_m2_yoy on its own inputs
\* the months a list of special rows marks with a kind
Marked(sp, kind) == {sp[j].m : j \in {x \in 1..Len(sp) : sp[x].m # 0 /\ sp[x].kind = kind}}

InitYoY ==
    /\ TrendsOff
    /\ fails = <<>>
    /\ answer = <<>>
    /\ data = <<>>
    /\ mpc = "call_yoy"
    /\ i_try = 0
    /\ made = <<>>
    /\ \E h \in 1..MaxHist :
         \E sp \in [1..MaxSpecial -> [m : 0..h, kind : {"gap", "nan", "zero"}]] :
            /\ \A j \in 1..MaxSpecial : sp[j].m = 0 => sp[j].kind = "gap"
            /\ \A j \in 1..(MaxSpecial - 1) :
                  sp[j + 1].m # 0 => (sp[j].m # 0 /\ sp[j].m < sp[j + 1].m)
            /\ m2_raw = M2Rows(h, Marked(sp, "gap"), Marked(sp, "nan"), Marked(sp, "zero"))
            /\ m2_raw.index # <<>>
    /\ hy_raw = EmptyDF
    /\ vix_raw = EmptyDF
    /\ m2_yoy = EmptyDF
    /\ hy_bps = EmptyDF
    /\ vix_mon = EmptyDF
    /\ combined = EmptyDF
    /\ out_csv = "none"

\* line 87
CallComputeM2YoY ==
    /\ mpc = "call_yoy"
    /\ m2_yoy' = ComputeM2YoY(m2_raw, FRED_M2)
    /\ mpc' = "returned"
    /\ UNCHANGED <<fails, answer, data, i_try, made, m2_raw, hy_raw, vix_raw, hy_bps,
                   vix_mon, combined, out_csv, tvars>>

NextYoY == CallComputeM2YoY

SpecYoY == InitYoY /\ [][NextYoY]_vars

\* ----------------------------------------------- hy_to_bps on its own inputs
InitUnit ==
    /\ TrendsOff
    /\ fails = <<>>
    /\ answer = <<>>
    /\ data = <<>>
    /\ mpc = "call_bps"
    /\ i_try = 0
    /\ made = <<>>
    /\ m2_raw = EmptyDF
    /\ \E h \in 1..MaxHyMonths, early \in {NaN, F(50)} :
         \E v \in [1..h -> HyVals] :
            hy_raw = DailyRows(FRED_HY, 1, v, early)
    /\ vix_raw = EmptyDF
    /\ m2_yoy = EmptyDF
    /\ hy_bps = EmptyDF
    /\ vix_mon = EmptyDF
    /\ combined = EmptyDF
    /\ out_csv = "none"

\* line 88
CallHyToBps ==
    /\ mpc = "call_bps"
    /\ hy_bps' = HyToBps(hy_raw, FRED_HY)
    /\ mpc' = "returned"
    /\ UNCHANGED <<fails, answer, data, i_try, made, m2_raw, hy_raw, vix_raw, m2_yoy,
                   vix_mon, combined, out_csv, tvars>>

NextUnit == CallHyToBps

SpecUnit == InitUnit /\ [][NextUnit]_vars

\* ------------------------------------------------------------ the whole
\* one run of either script, or one call of a function on its own inputs
Init == InitTrends \/ InitMacro \/ InitAlign \/ InitYoY \/ InitUnit

Next == NextTrends \/ NextMacro \/ NextYoY \/ NextUnit

Spec == Init /\ [][Next]_vars

\* ------------------------------------------------- claims on the trends fetch
Planned == pc \in {"fetch1", "fetch2", "combine", "done"} /\ Len(keywords) > BatchSize

\* the keys a batch brings in a non-anchor role: all of batch 1, and batch 2
\* without its leading anchor
NewMembers == batch1 \o Tail(batch2)

\* C1: with more than five distinct keys and an anchor out of the key set,
\* every key is a non-anchor member of exactly one planned batch and the
\* anchor is a member of every planned batch.
C1_AnchorInEveryBatch ==
    Planned =>
        /\ \A k \in Range(keywords) : Count(k, NewMembers) = 1
        /\ anchor_keyword \in Range(batch1)
        /\ anchor_keyword \in Range(batch2)

\* C2: every key list submitted to the comparison provider has at most five
\* keys, the anchor included.
C2_PayloadWithinCapacity == Len(payload) <= BatchSize

Overlap == CommonIndex(df1, df2)

Rescaled == pc = "done" /\ path = "rescaled"

\* the sum of the fetched anchor values of a batch over the overlap
AnchorSum(df) ==
    LET S == Range(Overlap)
        RECURSIVE Sum(_)
        Sum(T) == IF T = {} THEN 0
                  ELSE LET t == CHOOSE x \in T : TRUE
                       IN  Cell(df, anchor_keyword, t).n + Sum(T \ {t})
    IN  Sum(S)

\* C6: after a rescaling with overlapping timestamps, scale times the mean of
\* batch 2's anchor over the overlap equals the mean of batch 1's anchor over
\* the overlap when the former is non-zero, and scale is 1 when it is zero;
\* the returned frame holds batch 1's columns unchanged, batch 2's non-anchor
\* columns times scale, and the anchor column once, from batch 1.
C6_AnchorRescaling ==
    (Rescaled /\ Overlap # <<>>) =>
        /\ AnchorSum(df2) # 0 =>
              /\ IsFinite(scale)
              /\ scale.n * AnchorSum(df2) = scale.d * AnchorSum(df1)
        /\ AnchorSum(df2) = 0 => scale = F(1)
        /\ \A i \in 1..Len(df2.cols) :
              LET k == df2.cols[i].name
              IN  k # anchor_keyword =>
                    \A t \in Range(df2.index) :
                        /\ IsFinite(Cell(ret, k, t))
                        /\ Cell(ret, k, t).n * scale.d * Cell(df2, k, t).d
                             = Cell(df2, k, t).n * scale.n * Cell(ret, k, t).d
        /\ \A i \in 1..Len(df1.cols) :
              \A t \in Range(ret.index) :
                  Cell(ret, df1.cols[i].name, t)
                    = IF t \in Range(df1.index) THEN Cell(df1, df1.cols[i].name, t) ELSE NaN
        /\ Count(anchor_keyword, ColNames(ret)) = 1

\* C6 witness: a rescaling over a proper overlap with a scale other than 1
C6_Witness ==
    /\ Rescaled
    /\ Overlap # <<>>
    /\ df1.index # df2.index
    /\ AnchorSum(df2) # 0
    /\ scale # F(1)
    /\ Len(df2.cols) > 1

\* the names are distinct requested keys in the order of the request
InKeyOrder(names, kw) ==
    /\ \A i \in 1..Len(names) : names[i] \in Range(kw)
    /\ \A i, j \in 1..Len(names) : i < j => PosOf(kw, names[i]) < PosOf(kw, names[j])

\* C7: whenever the function returns data, the returned columns are requested
\* keys in the requested order, each at most once.
C7_ColumnsInKeyOrder ==
    (pc = "done" /\ ~IsEmpty(ret)) => InKeyOrder(ColNames(ret), keywords)

\* with the anchor among the first five keys the batches are well formed and
\* every return path keeps the requested order
AnchorInFirstBatch ==
    (pc = "done" /\ ~IsEmpty(ret) /\ Planned /\ anchor_keyword \in Range(batch1))
        => InKeyOrder(ColNames(ret), keywords)

\* -------------------------------------------------- claims on fetch_fred, main
RawOf(s) == IF s = FRED_M2 THEN m2_raw ELSE IF s = FRED_HY THEN hy_raw ELSE vix_raw

ColumnOf(s) ==
    IF s = FRED_M2 THEN "M2_YoY_pct" ELSE IF s = FRED_HY THEN "HY_spread_bps" ELSE "VIX"

\* fetch_fred(s) was called and handed a frame back
HasReturned(s) == made[s] > 0 /\ Response(s, made[s]) # "raise"

\* FRED raises on every request for s / answers a request for s with rows
Down(s) == fails[s] = Tries

Up(s) == fails[s] < Tries /\ answer[s] = "rows"

Hollow(s) == fails[s] < Tries /\ answer[s] = "empty"

Terminated == mpc \in {"done", "raised"}

\* C3: a fetcher goes on to another request after one that raised and after
\* one that came back empty alike: it hands back an empty frame only when
\* all its requests are used up, and it never sends more than that many.
C3_EmptyIsRetried ==
    \A s \in SeriesIds :
        /\ made[s] <= Tries
        /\ (HasReturned(s) /\ IsEmpty(RawOf(s))) => made[s] = Tries

\* C4: with one source failing on every request and the others answering
\* with rows, nothing is raised, main completes and writes a panel that
\* holds exactly the columns of the sources that answered.
C4_PartialFailureCompletes ==
    (Terminated /\ \E s \in SeriesIds : Down(s) /\ \A t \in SeriesIds \ {s} : Up(t)) =>
        /\ mpc = "done"
        /\ out_csv = "panel"
        /\ Range(ColNames(combined)) = {ColumnOf(t) : t \in {u \in SeriesIds : Up(u)}}

\* C5: with every source failing, by raising on every request or by coming
\* back empty, nothing is raised: main takes the no-data branch, writes the
\* placeholder and returns without building a panel.
C5_TotalFailureNoData ==
    (Terminated /\ \A s \in SeriesIds : Down(s) \/ Hollow(s)) =>
        /\ mpc = "done"
        /\ out_csv = "placeholder"
        /\ IsEmpty(combined)

\* ---------------------------------------------------- claims on the merge step
MergeInputs == NonEmptyFrames(m2_yoy, hy_bps, vix_mon)

Merged == mpc = "done" /\ out_csv = "panel"

\* the months at which a one-column frame holds a value
Obs(d) == {t \in Range(d.index) : ~IsNaN(d.cols[1].vals[PosOf(d.index, t)])}

Earlier(d, m) == {t \in Obs(d) : t < m}

Later(d, m) == {t \in Obs(d) : t > m}

ValueAt(d, t) == d.cols[1].vals[PosOf(d.index, t)]

\* the fill policy, cell by cell
Filled(d, m) ==
    IF m \in Obs(d) THEN ValueAt(d, m)
    ELSE IF Earlier(d, m) # {} THEN ValueAt(d, MaxOf(Earlier(d, m)))
    ELSE IF Later(d, m) # {} THEN ValueAt(d, MinOf(Later(d, m)))
    ELSE NaN

\* C8: the panel index is the sorted duplicate-free union of the columns'
\* monthly indices, and every cell is the column's own observation of the
\* month, else its most recent earlier observation, else its first later one.
C8_ForwardThenBackwardFill ==
    Merged =>
        /\ \A a, b \in 1..Len(combined.index) : a < b => combined.index[a] < combined.index[b]
        /\ Range(combined.index) = UNION {Range(MergeInputs[j].index) : j \in 1..Len(MergeInputs)}
        /\ Len(combined.cols) = Len(MergeInputs)
        /\ \A j \in 1..Len(MergeInputs) :
              /\ combined.cols[j].name = MergeInputs[j].cols[1].name
              /\ \A p \in 1..Len(combined.index) :
                    combined.cols[j].vals[p] = Filled(MergeInputs[j], combined.index[p])

\* C8 witness: a panel in which one cell is filled forward over a later
\* observation of its column, another is filled backward, and the inputs
\* arrive out of month order
C8_Witness ==
    /\ Merged
    /\ \E j \in 1..Len(MergeInputs), m \in Range(combined.index) :
          /\ m \notin Obs(MergeInputs[j])
          /\ Earlier(MergeInputs[j], m) # {}
          /\ Later(MergeInputs[j], m) # {}
    /\ \E j \in 1..Len(MergeInputs), m \in Range(combined.index) :
          /\ Earlier(MergeInputs[j], m) = {}
          /\ m \notin Obs(MergeInputs[j])
          /\ Later(MergeInputs[j], m) # {}
    /\ Len(MergeInputs) > 1
    /\ MergeInputs[2].index[1] < MergeInputs[1].index[1]

\* ------------------------------------------------------- claims on hy_to_bps
HyMonthly == SortIndex(ResampleLast(hy_raw)).cols[1].vals

Present(v) == {j \in 1..Len(v) : ~IsNaN(v[j])}

\* the k-th smallest of the values present in v, counted with repetitions
OrderStat(v, k) ==
    CHOOSE x \in {v[j].n : j \in Present(v)} :
        /\ Cardinality({j \in Present(v) : v[j].n < x}) < k
        /\ k <= Cardinality({j \in Present(v) : v[j].n <= x})

\* twice the median of the values present in v
TwiceMedian(v) ==
    LET n == Cardinality(Present(v))
    IN  OrderStat(v, (n + 1) \div 2) + OrderStat(v, (n + 2) \div 2)

SmallMedian(v) ==
    /\ Present(v) # {}
    /\ -2 * BpsThreshold < TwiceMedian(v)
    /\ TwiceMedian(v) < 2 * BpsThreshold

\* C9: every value is multiplied by 100 exactly when the absolute median of
\* the values present is below 20; with a median of 20 or more, 20 itself
\* included, the series is left as it is.
C9_PercentToBasisPoints ==
    (mpc = "returned" /\ ~IsEmpty(hy_raw)) =>
        LET v     == HyMonthly
            small == SmallMedian(v)
        IN  /\ hy_bps.index = SortIndex(ResampleLast(hy_raw)).index
            /\ hy_bps.cols[1].vals =
                  [j \in 1..Len(v) |->
                     IF IsNaN(v[j]) THEN NaN
                     ELSE IF small THEN F(v[j].n * 100)
                     ELSE v[j]]

\* C9 witness: a series with a median of exactly 20 is handed back unchanged
C9_Witness ==
    /\ mpc = "returned"
    /\ ~IsEmpty(hy_raw)
    /\ Cardinality(Present(HyMonthly)) > 1
    /\ TwiceMedian(HyMonthly) = 2 * BpsThreshold
    /\ \E j \in Present(HyMonthly) : HyMonthly[j] # F(BpsThreshold)
    /\ hy_bps.cols[1].vals = HyMonthly

\* -------------------------------------------------- claims on compute_m2_yoy
M2Monthly == SortIndex(ResampleLast(m2_raw)).cols[1].vals

Growth == m2_yoy.cols[1].vals

\* C10: growth(m) is a finite number, (value(m) / value(m-12) - 1) * 100,
\* exactly when value(m) and value(m-12) are present and value(m-12) is not
\* zero; in every other month it is absent.
C10_GrowthDefinedOnlyOnValidBase ==
    (mpc = "returned" /\ ~IsEmpty(m2_raw)) =>
        \A j \in 1..Len(M2Monthly) :
            IF /\ j > YoYPeriods
               /\ ~IsNaN(M2Monthly[j])
               /\ ~IsNaN(M2Monthly[j - YoYPeriods])
               /\ M2Monthly[j - YoYPeriods].n # 0
            THEN /\ IsFinite(Growth[j])
                 /\ Growth[j].n * M2Monthly[j - YoYPeriods].n
                      = Growth[j].d * 100 * (M2Monthly[j].n - M2Monthly[j - YoYPeriods].n)
            ELSE IsNaN(Growth[j])

\* with fewer than 13 monthly values every growth value is absent
ShortHistoryAllAbsent ==
    (mpc = "returned" /\ ~IsEmpty(m2_raw) /\ Len(M2Monthly) <= YoYPeriods) =>
        \A j \in 1..Len(Growth) : IsNaN(Growth[j])

\* without missing months and zero levels the growth is the stated quotient
CleanHistoryGrowth ==
    (mpc = "returned" /\ ~IsEmpty(m2_raw)
        /\ \A j \in 1..Len(M2Monthly) : IsFinite(M2Monthly[j]) /\ M2Monthly[j].n # 0) =>
        \A j \in 1..Len(M2Monthly) :
            IF j > YoYPeriods
            THEN /\ IsFinite(Growth[j])
                 /\ Growth[j].n * M2Monthly[j - YoYPeriods].n
                      = Growth[j].d * 100 * (M2Monthly[j].n - M2Monthly[j - YoYPeriods].n)
            ELSE IsNaN(Growth[j])

\* --------------------------------------------------- claims on the written panel
\* the cells of the k-th column of the written panel
PanelCells(k) == combined.cols[k].vals

Populated(k) == \A j \in 1..Len(PanelCells(k)) : ~IsNaN(PanelCells(k)[j])

Blank(k) == \A j \in 1..Len(PanelCells(k)) : IsNaN(PanelCells(k)[j])

\* C11: in the panel main writes, a column that is present holds a value in
\* every row of the index; no column is present with missing values only
\* (such as the growth column of a history shorter than 13 months).
C11_PresentColumnsPopulated ==
    Merged => \A k \in 1..Len(combined.cols) : Populated(k)

\* a column of the written panel is either populated in every row or blank
\* in every row: the fill leaves no column with values in some rows only
PanelColumnPopulatedOrBlank ==
    Merged => \A k \in 1..Len(combined.cols) : Populated(k) \/ Blank(k)

\* the growth column is blank in the written panel exactly when M2 came with
\* no more than 12 months of history
GrowthBlankOnShortHistory ==
    (Merged /\ ~IsEmpty(m2_raw)) =>
        /\ HasCol(combined, "M2_YoY_pct")
        /\ \A k \in 1..Len(combined.cols) :
             combined.cols[k].name = "M2_YoY_pct" =>
                 (Blank(k) <=> Len(m2_raw.index) <= YoYPeriods)

====
